---- MODULE Spec2Model ----
(***************************************************************************)
(* A model of the poker_trainer hand evaluator (core/card.py, core/hand.py, *)
(* core/evaluator.py).  Cards are records, hands are the two lists a        *)
(* TotalHand holds, and the evaluator's functions are operators computed    *)
(* the way the Python code computes them, loop by loop.                     *)
(***************************************************************************)
EXTENDS Integers, Sequences, FiniteSets, Bags, TLC

VARIABLES
    hand1,      \* the TotalHand last handed to the evaluator (first argument)
    hand2,      \* compare_hands' second TotalHand (the empty hand otherwise)
    five,       \* the 5-card list last handed to _evaluate_five_card_hand
    card_text, \* the string last handed to create_card (a list of characters)
    deck_cards, \* the cards list of the Deck, its top card last
    dealt,      \* the cards deal_card has returned since the deck was built
                \* or last reset, as a bag
    op,         \* the function or method last called
    outcome     \* what that call returned (or the exception it raised)

vars == <<hand1, hand2, five, card_text, deck_cards, dealt, op, outcome>>

----------------------------------------------------------------------------
(* Bounds of the model.                                                     *)

\* Number of ranks in each rank window the classifier's cards are drawn from.
WindowSize == 7
\* Number of cards, from the top of a deck, the 0..7-card hands are drawn from.
EvalCards == 13
\* Number of cards, from the top of a deck, the compared hands are drawn from.
CompareCards == 7
\* Greatest length of the strings handed to create_card.
MaxStringLen == 3
\* Number of cards, from the top of the deck, a shuffle reorders.
ShuffleWindow == 2

----------------------------------------------------------------------------
(* core/card.py                                                             *)

\* Card.SUITS holds the four suit glyphs; the glyphs are written here by name.
SUITS == <<"SPADE", "HEART", "DIAMOND", "CLUB">>

RANKS == <<"2", "3", "4", "5", "6", "7", "8", "9", "T", "J", "Q", "K", "A">>

RANK_VALUES ==
    [r \in {RANKS[i] : i \in 1..Len(RANKS)} |->
        CASE r = "2" -> 2 [] r = "3" -> 3 [] r = "4" -> 4 [] r = "5" -> 5
          [] r = "6" -> 6 [] r = "7" -> 7 [] r = "8" -> 8 [] r = "9" -> 9
          [] r = "T" -> 10 [] r = "J" -> 11 [] r = "Q" -> 12 [] r = "K" -> 13
          [] r = "A" -> 14]

\* Card.__init__: a card is a (rank, suit) pair from the two enumerations.
Card(rank, suit) == [rank |-> rank, suit |-> suit]

get_rank_value(card) == RANK_VALUES[card.rank]

\* Card.__lt__: cards compare by rank value only.
CardLt(a, b) == get_rank_value(a) < get_rank_value(b)

----------------------------------------------------------------------------
(* Python built-ins the code relies on.                                     *)

\* list.sort(reverse=True) on cards: a stable sort by Card.__lt__, so cards
\* of equal value keep their relative order.
SortCardsDesc(cards) == SortSeq(cards, LAMBDA a, b : CardLt(b, a))

\* sorted(values, reverse=True) on integers.
SortedDesc(values) == SortSeq(values, LAMBDA a, b : a > b)

\* set(xs)
SetOf(xs) == {xs[i] : i \in 1..Len(xs)}

\* list(set(values)) for rank values: CPython iterates a set of small
\* integers (each its own hash, table larger than 14 once five are in) in
\* ascending order.
RECURSIVE ListOfSet(_)
ListOfSet(S) ==
    IF S = {} THEN <<>>
    ELSE LET m == CHOOSE x \in S : \A y \in S : x <= y
         IN  <<m>> \o ListOfSet(S \ {m})

\* itertools.combinations(range(lo, n + 1), k): index tuples in lexicographic
\* order.
RECURSIVE CombosFrom(_, _, _)
RECURSIVE CombosWithFirst(_, _, _)
CombosFrom(lo, n, k) ==
    IF k = 0 THEN << <<>> >>
    ELSE IF lo > n - k + 1 THEN <<>>
    ELSE CombosWithFirst(lo, n, k) \o CombosFrom(lo + 1, n, k)
CombosWithFirst(first, n, k) ==
    LET rest == CombosFrom(first + 1, n, k - 1)
    IN  [j \in 1..Len(rest) |-> <<first>> \o rest[j]]

Combos2of3 == CombosFrom(1, 3, 2)
Combos2of5 == CombosFrom(1, 5, 2)
Combos3of5 == CombosFrom(1, 5, 3)
Combos4of5 == CombosFrom(1, 5, 4)
Combos5of5 == CombosFrom(1, 5, 5)
Combos5of6 == CombosFrom(1, 6, 5)
Combos5of7 == CombosFrom(1, 7, 5)

\* The index tuples of combinations(xs, 5) for a list of n elements.
Combos5(n) ==
    CASE n = 5 -> Combos5of5
      [] n = 6 -> Combos5of6
      [] n = 7 -> Combos5of7
      [] OTHER -> <<>>

\* The elements of xs at the positions idx.
Pick(xs, idx) == [j \in 1..Len(idx) |-> xs[idx[j]]]

\* [v for v in xs if v != x]
Without(xs, x) == SelectSeq(xs, LAMBDA v : v # x)

\* An exception raised by list indexing.
IndexError == "IndexError"

\* How a call, or a loop inside a function, ends: with a returned value, with
\* an exception, or (a loop only) by running to its end without returning.
Return(v) == [kind |-> "return", value |-> v]
Raise(e) == [kind |-> "raise", value |-> e]
NoReturn == [kind |-> "none", value |-> <<>>]

\* Python's None.
None == "None"

\* v != combi with v an int and combi a tuple: values of different types are
\* never equal in Python.
IntNeTuple(v, combi) == TRUE

----------------------------------------------------------------------------
(* core/evaluator.py: the five-card classifier                              *)

HAND_RANKS ==
    [n \in {"High Card", "Pair", "Two Pair", "Three of a Kind", "Straight",
            "Flush", "Full House", "Four of a Kind", "Straight Flush",
            "Royal Flush"} |->
        CASE n = "High Card" -> 1 [] n = "Pair" -> 2 [] n = "Two Pair" -> 3
          [] n = "Three of a Kind" -> 4 [] n = "Straight" -> 5
          [] n = "Flush" -> 6 [] n = "Full House" -> 7
          [] n = "Four of a Kind" -> 8 [] n = "Straight Flush" -> 9
          [] n = "Royal Flush" -> 10]

\* _check_straight: the sum of the successive differences of the unique
\* values, taken in the set's iteration order.
_check_straight(values) ==
    LET unique_values == ListOfSet(SetOf(values))
        n == Len(unique_values)
        difference[i \in 1..n] ==
            IF i = 1 THEN 0
            ELSE difference[i - 1] + (unique_values[i] - unique_values[i - 1])
    IN  IF n = 5
        THEN IF difference[n] = 4
             THEN <<TRUE, unique_values[n]>>
             ELSE <<FALSE, None>>
        ELSE <<FALSE, None>>

\* Mutant of the flush and straight branches: Flush and Straight carry each
\* other's rank number.
FlushStraightBranchSwapped(values, suits) ==
    LET is_flush == Cardinality(SetOf(suits)) = 1
        st == _check_straight(values)
        is_straight == st[1]
        straight_rank == st[2]
    IN  IF is_flush
        THEN IF is_straight /\ straight_rank = 14 THEN Return(<<10, values>>)
             ELSE IF is_straight /\ (is_flush /\ is_straight)
                  THEN Return(<<9, values>>)
             ELSE Return(<<5, values>>)
        ELSE IF is_straight THEN Return(<<6, values>>)
        ELSE NoReturn

\* Lines 86-100: the flush and straight branches.
FlushStraightBranch(values, suits) ==
    LET is_flush == Cardinality(SetOf(suits)) = 1
        st == _check_straight(values)
        is_straight == st[1]
        straight_rank == st[2]
    IN  IF is_flush
        THEN IF is_straight /\ straight_rank = 14 THEN Return(<<10, values>>)
             ELSE IF is_straight /\ (is_flush /\ is_straight)
                  THEN Return(<<9, values>>)
             ELSE Return(<<6, values>>)
        ELSE IF is_straight THEN Return(<<5, values>>)
        ELSE NoReturn

\* Lines 103-108: the four-of-a-kind loop.
RECURSIVE FourOfAKindLoop(_, _)
FourOfAKindLoop(values, k) ==
    IF k > Len(Combos4of5) THEN NoReturn
    ELSE LET combi == Pick(values, Combos4of5[k])
             combi_set == SetOf(combi)
         IN  IF Cardinality(combi_set) = 1
             THEN LET four_of_a_kind == CHOOSE v \in combi_set : TRUE
                      kicker == SelectSeq(values,
                                          LAMBDA v : IntNeTuple(v, combi))
                  IN  IF Len(kicker) < 1 THEN Raise(IndexError)
                      ELSE Return(<<8, <<four_of_a_kind, kicker[1]>>>>)
             ELSE FourOfAKindLoop(values, k + 1)

\* Mutant of the full-house / three-of-a-kind loop: the remaining cards are
\* filtered against the tuple combi instead of combi[0], as line 107 does.
RECURSIVE FullHouseLoopTupleFilter(_, _)
FullHouseLoopTupleFilter(values, k) ==
    IF k > Len(Combos3of5) THEN NoReturn
    ELSE LET combi == Pick(values, Combos3of5[k])
             combi_set == SetOf(combi)
         IN  IF Cardinality(combi_set) = 1
             THEN LET three_of_a_kind == CHOOSE v \in combi_set : TRUE
                      remaining_two_cards ==
                          SelectSeq(values, LAMBDA v : IntNeTuple(v, combi))
                  IN  IF remaining_two_cards[1] = remaining_two_cards[2]
                      THEN Return(<<7, <<three_of_a_kind,
                                         remaining_two_cards[1]>>>>)
                      ELSE Return(<<4, <<three_of_a_kind>>
                                       \o remaining_two_cards>>)
             ELSE FullHouseLoopTupleFilter(values, k + 1)

\* Lines 111-121: the full-house / three-of-a-kind loop.
RECURSIVE FullHouseLoop(_, _)
FullHouseLoop(values, k) ==
    IF k > Len(Combos3of5) THEN NoReturn
    ELSE LET combi == Pick(values, Combos3of5[k])
             combi_set == SetOf(combi)
         IN  IF Cardinality(combi_set) = 1
             THEN LET three_of_a_kind == CHOOSE v \in combi_set : TRUE
                      remaining_two_cards == Without(values, combi[1])
                  IN  IF Len(remaining_two_cards) < 2 THEN Raise(IndexError)
                      ELSE IF remaining_two_cards[1] = remaining_two_cards[2]
                      THEN Return(<<7, <<three_of_a_kind,
                                         remaining_two_cards[1]>>>>)
                      ELSE Return(<<4, <<three_of_a_kind>>
                                       \o remaining_two_cards>>)
             ELSE FullHouseLoop(values, k + 1)

\* Lines 128-137: the inner loop that looks for the second pair.
RECURSIVE SmallCombiLoop(_, _, _, _)
SmallCombiLoop(remaining_three_cards, combi, small, k) ==
    IF k > Len(small) THEN NoReturn
    ELSE LET small_combi == Pick(remaining_three_cards, small[k])
         IN  IF small_combi[1] = small_combi[2]
             THEN LET kicker == Without(remaining_three_cards, small_combi[1])
                  IN  Return(<<3, SortedDesc(<<combi[1]>> \o <<small_combi[1]>>)
                                  \o kicker>>)
             ELSE SmallCombiLoop(remaining_three_cards, combi, small, k + 1)

\* Lines 124-141: the two-pair / pair loop.
RECURSIVE TwoPairLoop(_, _)
TwoPairLoop(values, k) ==
    IF k > Len(Combos2of5) THEN NoReturn
    ELSE LET combi == Pick(values, Combos2of5[k])
         IN  IF combi[1] = combi[2]
             THEN LET remaining_three_cards == Without(values, combi[1])
                  IN  IF Cardinality(SetOf(remaining_three_cards)) = 2
                      THEN LET inner ==
                                 SmallCombiLoop(
                                     remaining_three_cards, combi,
                                     CombosFrom(1, Len(remaining_three_cards), 2),
                                     1)
                           IN  IF inner.kind # "none" THEN inner
                               ELSE TwoPairLoop(values, k + 1)
                      ELSE Return(<<2, <<combi[1]>> \o remaining_three_cards>>)
             ELSE TwoPairLoop(values, k + 1)

\* Mutant of the for loop's else branch: the return is missing.
HighCardBranchMissing(values) == NoReturn

\* Lines 143-145: the for loop's else branch.
HighCardBranch(values) == Return(<<1, values>>)

\* [card.get_rank_value() for card in cards]
RankValuesOf(cards) == [i \in 1..Len(cards) |-> get_rank_value(cards[i])]

\* [card.suit for card in cards]
SuitsOf(cards) == [i \in 1..Len(cards) |-> cards[i].suit]

\* _evaluate_five_card_hand
_evaluate_five_card_hand(cards) ==
    LET values == SortedDesc(RankValuesOf(cards))
        suits == SuitsOf(cards)
        fs == FlushStraightBranch(values, suits)
        four == FourOfAKindLoop(values, 1)
        full == FullHouseLoop(values, 1)
        two == TwoPairLoop(values, 1)
    IN  IF fs.kind # "none" THEN fs
        ELSE IF four.kind # "none" THEN four
        ELSE IF full.kind # "none" THEN full
        ELSE IF two.kind # "none" THEN two
        ELSE HighCardBranch(values)

----------------------------------------------------------------------------
(* core/hand.py                                                             *)

\* TotalHand.__init__ over a PrivateHand and a CommunityCards, each a list.
TotalHand(private_hand, community_cards) ==
    [private_hand |-> private_hand, community_cards |-> community_cards]

EmptyHand == TotalHand(<<>>, <<>>)

\* Mutant of TotalHand.cards: the sort is left out.
TotalHandCardsUnsorted(hand) == hand.private_hand \o hand.community_cards

\* TotalHand.cards: the two lists joined and sorted high to low.
TotalHandCards(hand) ==
    SortCardsDesc(hand.private_hand \o hand.community_cards)

----------------------------------------------------------------------------
(* core/evaluator.py: best hand and comparison                              *)

\* Lines 57-63: the loop run when a combination's category equals the best
\* one so far.  It compares each score with hand_rank[1][i], the same list.
RECURSIVE TieLoop(_, _, _)
TieLoop(hand_rank, best_hand, i) ==
    IF i > Len(hand_rank[2]) THEN best_hand
    ELSE LET score == hand_rank[2][i]
         IN  IF score > hand_rank[2][i]
             THEN TieLoop(hand_rank, hand_rank, i + 1)
             ELSE TieLoop(hand_rank, best_hand, i + 1)

\* Lines 46-63: the loop over combinations(hand.cards, 5).
RECURSIVE EvaluateLoop(_, _, _, _)
EvaluateLoop(cards, combos, k, best_hand) ==
    IF k > Len(combos) THEN Return(best_hand)
    ELSE LET r == _evaluate_five_card_hand(Pick(cards, combos[k]))
             hand_rank == r.value
         IN  IF r.kind = "raise" THEN r
             ELSE IF hand_rank[1] > best_hand[1]
             THEN EvaluateLoop(cards, combos, k + 1, hand_rank)
             ELSE IF hand_rank[1] < best_hand[1]
             THEN EvaluateLoop(cards, combos, k + 1, best_hand)
             ELSE EvaluateLoop(cards, combos, k + 1,
                               TieLoop(hand_rank, best_hand, 1))

\* evaluate_hand
evaluate_hand(hand) ==
    LET cards == TotalHandCards(hand)
    IN  EvaluateLoop(cards, Combos5(Len(cards)), 1, <<0, <<0>>>>)

\* Mutant of the comparison loop: >= where the code has >.
RECURSIVE CompareLoopGe(_, _, _)
CompareLoopGe(high1, high2, i) ==
    IF i > Len(high1) THEN Return(0)
    ELSE IF i > Len(high2) THEN Raise(IndexError)
    ELSE IF high1[i] >= high2[i] THEN Return(-1)
    ELSE IF high1[i] < high2[i] THEN Return(1)
    ELSE CompareLoopGe(high1, high2, i + 1)

\* Lines 162-168: the loop over hand1_rank[1], indexing hand2_rank[1].
RECURSIVE CompareLoop(_, _, _)
CompareLoop(high1, high2, i) ==
    IF i > Len(high1) THEN Return(0)
    ELSE IF i > Len(high2) THEN Raise(IndexError)
    ELSE IF high1[i] > high2[i] THEN Return(-1)
    ELSE IF high1[i] < high2[i] THEN Return(1)
    ELSE CompareLoop(high1, high2, i + 1)

\* Mutant of compare_hands: the categories are not compared, only the
\* high-card lists.
compare_hands_no_category(h1, h2) ==
    LET r1 == evaluate_hand(h1)
        r2 == evaluate_hand(h2)
    IN  IF r1.kind = "raise" THEN r1
        ELSE IF r2.kind = "raise" THEN r2
        ELSE CompareLoop(r1.value[2], r2.value[2], 1)

\* compare_hands
compare_hands(h1, h2) ==
    LET r1 == evaluate_hand(h1)
        r2 == evaluate_hand(h2)
        hand1_rank == r1.value
        hand2_rank == r2.value
    IN  IF r1.kind = "raise" THEN r1
        ELSE IF r2.kind = "raise" THEN r2
        ELSE IF hand1_rank[1] > hand2_rank[1] THEN Return(-1)
        ELSE IF hand1_rank[1] < hand2_rank[1] THEN Return(1)
        ELSE CompareLoop(hand1_rank[2], hand2_rank[2], 1)

----------------------------------------------------------------------------
(* core/card.py and core/hand.py: cards and hands from strings              *)

ValueError == "ValueError"

\* Card.__init__ with its two checks.
NewCard(rank, suit) ==
    IF rank \notin SetOf(RANKS) THEN Raise(ValueError)
    ELSE IF suit \notin SetOf(SUITS) THEN Raise(ValueError)
    ELSE Return(Card(rank, suit))

\* str.upper() and str.lower() on one character.  A string is modelled as
\* the list of its characters; a suit glyph is one character.  Two
\* characters outside ASCII are written by name: "KELVIN" is U+212A, which
\* lower() turns into "k" and upper() leaves alone, and "LONG_S" is U+017F,
\* which upper() turns into "S" and lower() leaves alone.
UpperUnchanged(ch) == ch

Upper(ch) ==
    CASE ch = "t" -> "T" [] ch = "j" -> "J" [] ch = "q" -> "Q"
      [] ch = "k" -> "K" [] ch = "a" -> "A" [] ch = "s" -> "S"
      [] ch = "h" -> "H" [] ch = "d" -> "D" [] ch = "c" -> "C"
      [] ch = "x" -> "X" [] ch = "LONG_S" -> "S" [] OTHER -> ch
Lower(ch) ==
    CASE ch = "T" -> "t" [] ch = "J" -> "j" [] ch = "Q" -> "q"
      [] ch = "K" -> "k" [] ch = "A" -> "a" [] ch = "S" -> "s"
      [] ch = "H" -> "h" [] ch = "D" -> "d" [] ch = "C" -> "c"
      [] ch = "X" -> "x" [] ch = "KELVIN" -> "k" [] OTHER -> ch

suit_mapping ==
    [ch \in {"s", "h", "d", "c"} |->
        CASE ch = "s" -> "SPADE" [] ch = "h" -> "HEART"
          [] ch = "d" -> "DIAMOND" [] ch = "c" -> "CLUB"]

\* create_card
create_card(card_string) ==
    IF Len(card_string) # 2 THEN Raise(ValueError)
    ELSE LET rank == Upper(card_string[1])
             suit_char == Lower(card_string[2])
         IN  IF suit_char \in DOMAIN suit_mapping
             THEN NewCard(rank, suit_mapping[suit_char])
             ELSE IF card_string[2] \in SetOf(SUITS)
             THEN NewCard(rank, card_string[2])
             ELSE Raise(ValueError)

\* TotalHand.from_strings: every string through create_card, the private
\* cards through PrivateHand.receive_card (at most 2), the community cards
\* through CommunityCards.add_card (at most 5).
from_strings(private_cards, community_cards) ==
    LET ph == [i \in 1..Len(private_cards) |-> create_card(private_cards[i])]
        cc == [i \in 1..Len(community_cards) |-> create_card(community_cards[i])]
    IN  IF \E i \in 1..Len(ph) : ph[i].kind = "raise" THEN Raise(ValueError)
        ELSE IF Len(ph) > 2 THEN Raise(ValueError)
        ELSE IF \E i \in 1..Len(cc) : cc[i].kind = "raise" THEN Raise(ValueError)
        ELSE IF Len(cc) > 5 THEN Raise(ValueError)
        ELSE Return(TotalHand([i \in 1..Len(ph) |-> ph[i].value],
                              [i \in 1..Len(cc) |-> cc[i].value]))

\* evaluator.py's demo hand:
\* TotalHand.from_strings(["Td", "Qd"], ["9d", "4c", "Kd", "Ad", "4s"])
DemoHand ==
    from_strings(<< <<"T", "d">>, <<"Q", "d">> >>,
                 << <<"9", "d">>, <<"4", "c">>, <<"K", "d">>, <<"A", "d">>,
                    <<"4", "s">> >>).value

----------------------------------------------------------------------------
(* The cards the operations are run on.                                     *)

\* core/deck.py, Deck.__init__: the 52 cards, suit by suit, ranks ascending.
NewDeck ==
    [i \in 1..(Len(SUITS) * Len(RANKS)) |->
        Card(RANKS[((i - 1) % Len(RANKS)) + 1],
             SUITS[((i - 1) \div Len(RANKS)) + 1])]

\* The cards of a new deck whose rank value is in `values`, in deck order.
DeckOf(values) == SelectSeq(NewDeck, LAMBDA c : get_rank_value(c) \in values)

\* Rank windows: the ace with the n - 1 lowest ranks, and the n highest ranks.
LowWindow(n) == {14} \cup (2..n)
HighWindow(n) == (15 - n)..14

\* The decks the classifier's five cards are drawn from.
LowDeck == DeckOf(LowWindow(WindowSize))
HighDeck == DeckOf(HighWindow(WindowSize))

\* The decks the 0..7-card hands are drawn from: the ranks A, 2..6 and the
\* ranks 9..A of a new deck, and a new deck sorted high to low.
EvalDecks ==
    {DeckOf({14} \cup (2..6)), DeckOf(9..14), SortCardsDesc(NewDeck)}

\* The decks the compared hands are drawn from: the ranks A, 2..6 of a new
\* deck, and a new deck sorted high to low.
CompareDecks == {DeckOf({14} \cup (2..6)), SortCardsDesc(NewDeck)}

\* The hand dealt from the listed cards as the repository's scripts deal: the
\* first two cards to the private hand (PrivateHand.receive_card), the rest
\* to the community cards (CommunityCards.add_card).
Deal(cards) ==
    TotalHand(SubSeq(cards, 1, IF Len(cards) < 2 THEN Len(cards) ELSE 2),
              SubSeq(cards, 3, Len(cards)))

----------------------------------------------------------------------------
(* State machine: one call of an evaluator method on its input.  The        *)
(* evaluator keeps no state between calls, so a behaviour is one call.      *)

\* Five cards of one of the two decks, listed in deck order.
InitFive ==
    /\ \E deck \in {LowDeck, HighDeck} :
       \E a \in 1..Len(deck) : \E b \in (a + 1)..Len(deck) :
       \E c \in (b + 1)..Len(deck) : \E d \in (c + 1)..Len(deck) :
       \E e \in (d + 1)..Len(deck) :
           five = <<deck[a], deck[b], deck[c], deck[d], deck[e]>>
    /\ hand1 = EmptyHand
    /\ hand2 = EmptyHand
    /\ card_text = <<>>
    /\ deck_cards = <<>>
    /\ dealt = EmptyBag
    /\ op = "none"
    /\ outcome = NoReturn

\* A hand of 0 to 7 of the top EvalCards cards of a deck, dealt in deck
\* order; or the demo hand.
InitEval ==
    /\ \/ hand1 = DemoHand
       \/ \E deck \in EvalDecks : \E S \in SUBSET (1..EvalCards) :
              /\ Cardinality(S) <= 7
              /\ hand1 = Deal(Pick(deck, ListOfSet(S)))
    /\ hand2 = EmptyHand
    /\ five = <<>>
    /\ card_text = <<>>
    /\ deck_cards = <<>>
    /\ dealt = EmptyBag
    /\ op = "none"
    /\ outcome = NoReturn

\* Two hands, each of 5 to 7 of the top CompareCards cards of a deck.
InitCompare ==
    /\ \E deck1 \in CompareDecks : \E deck2 \in CompareDecks :
       \E S \in SUBSET (1..CompareCards) : \E T \in SUBSET (1..CompareCards) :
           /\ Cardinality(S) \in 5..7
           /\ Cardinality(T) \in 5..7
           /\ hand1 = Deal(Pick(deck1, ListOfSet(S)))
           /\ hand2 = Deal(Pick(deck2, ListOfSet(T)))
    /\ five = <<>>
    /\ card_text = <<>>
    /\ deck_cards = <<>>
    /\ dealt = EmptyBag
    /\ op = "none"
    /\ outcome = NoReturn

\* A call of _evaluate_five_card_hand(five).
Classify ==
    /\ op = "none"
    /\ op' = "_evaluate_five_card_hand"
    /\ outcome' = _evaluate_five_card_hand(five)
    /\ UNCHANGED <<hand1, hand2, five, card_text, deck_cards, dealt>>

\* A call of evaluate_hand(hand1).
Evaluate ==
    /\ op = "none"
    /\ op' = "evaluate_hand"
    /\ outcome' = evaluate_hand(hand1)
    /\ UNCHANGED <<hand1, hand2, five, card_text, deck_cards, dealt>>

\* A call of compare_hands(hand1, hand2).
Compare ==
    /\ op = "none"
    /\ op' = "compare_hands"
    /\ outcome' = compare_hands(hand1, hand2)
    /\ UNCHANGED <<hand1, hand2, five, card_text, deck_cards, dealt>>

SpecFive == InitFive /\ [][Classify]_vars

SpecEval == InitEval /\ [][Evaluate]_vars

SpecCompare == InitCompare /\ [][Compare]_vars

\* The characters the strings handed to create_card are made of: the rank
\* characters in both cases, the suit letters in both cases, the suit
\* glyphs, and characters that are neither.
Chars ==
    SetOf(RANKS) \cup {"t", "j", "q", "k", "a"}
        \cup {"s", "h", "d", "c", "S", "H", "D", "C"} \cup SetOf(SUITS)
        \cup {"0", "1", "x", "X", " ", "KELVIN", "LONG_S"}

\* A string of 0 to MaxStringLen characters.
InitCard ==
    /\ \E n \in 0..MaxStringLen : card_text \in [1..n -> Chars]
    /\ hand1 = EmptyHand
    /\ hand2 = EmptyHand
    /\ five = <<>>
    /\ deck_cards = <<>>
    /\ dealt = EmptyBag
    /\ op = "none"
    /\ outcome = NoReturn

\* A call of create_card(card_text).
CreateCard ==
    /\ op = "none"
    /\ op' = "create_card"
    /\ outcome' = create_card(card_text)
    /\ UNCHANGED <<hand1, hand2, five, card_text, deck_cards, dealt>>

SpecCard == InitCard /\ [][CreateCard]_vars

----------------------------------------------------------------------------
(* core/deck.py: a Deck under deal_card, shuffle and reset, and the script  *)
(* of tests/test_core/test_evaluator.py that deals a hand from a new Deck.  *)

\* random.shuffle(self.cards): the lists a shuffle may leave.  A shuffle may
\* leave any order; the orders followed here are those that reorder the top
\* ShuffleWindow cards.
shuffle(cards) ==
    LET n == Len(cards)
        k == IF n < ShuffleWindow THEN n ELSE ShuffleWindow
    IN  {[i \in 1..n |->
             IF i <= n - k THEN cards[i] ELSE cards[(n - k) + p[i - (n - k)]]] :
                 p \in Permutations(1..k)}

\* Deck.__init__(shuffle): the cards lists a new deck may hold.
DeckInit(do_shuffle) == IF do_shuffle THEN shuffle(NewDeck) ELSE {NewDeck}

\* deal_card without the pop: the top card is returned and stays in the deck.
deal_card_peek(cards) ==
    IF Len(cards) = 0
    THEN [result |-> Raise(IndexError), cards |-> cards]
    ELSE [result |-> Return(cards[Len(cards)]), cards |-> cards]

\* Deck.deal_card on a deck holding `cards`: what the call returns or
\* raises, and the cards it leaves in the deck.
deal_card(cards) ==
    IF Len(cards) = 0
    THEN [result |-> Raise(IndexError), cards |-> cards]
    ELSE [result |-> Return(cards[Len(cards)]),
          cards |-> SubSeq(cards, 1, Len(cards) - 1)]

\* n calls of deal_card in a row, stopping at the first that raises: the
\* cards returned, in order, the last result, and the cards left.
RECURSIVE DealCards(_, _)
DealCards(cards, n) ==
    IF n = 0 THEN [got |-> <<>>, result |-> Return(None), cards |-> cards]
    ELSE LET r == deal_card(cards)
         IN  IF r.result.kind = "raise"
             THEN [got |-> <<>>, result |-> r.result, cards |-> r.cards]
             ELSE LET rest == DealCards(r.cards, n - 1)
                  IN  [got |-> <<r.result.value>> \o rest.got,
                       result |-> rest.result, cards |-> rest.cards]

\* The bag of the elements of a list.
RECURSIVE BagOf(_)
BagOf(xs) ==
    IF xs = <<>> THEN EmptyBag ELSE SetToBag({Head(xs)}) (+) BagOf(Tail(xs))

\* Deck(shuffle): a new deck, shuffled or not; nothing dealt.
InitDeck ==
    /\ \E do_shuffle \in BOOLEAN : deck_cards \in DeckInit(do_shuffle)
    /\ dealt = EmptyBag
    /\ hand1 = EmptyHand
    /\ hand2 = EmptyHand
    /\ five = <<>>
    /\ card_text = <<>>
    /\ op = "none"
    /\ outcome = NoReturn

\* The script of test_evaluator has run to its end: its deck is used no more.
ScriptEnded == op = "test_evaluator"

\* A call of deck.deal_card().
DealCard ==
    LET r == deal_card(deck_cards)
    IN  /\ ~ScriptEnded
        /\ deck_cards' = r.cards
        /\ dealt' = IF r.result.kind = "return"
                     THEN dealt (+) SetToBag({r.result.value})
                     ELSE dealt
        /\ op' = "deal_card"
        /\ outcome' = r.result
        /\ UNCHANGED <<hand1, hand2, five, card_text>>

\* A call of deck.shuffle().
Shuffle ==
    /\ ~ScriptEnded
    /\ deck_cards' \in shuffle(deck_cards)
    /\ op' = "shuffle"
    /\ outcome' = Return(None)
    /\ UNCHANGED <<hand1, hand2, five, card_text, dealt>>

\* A call of deck.reset(shuffle): the deck is built anew.
Reset ==
    /\ ~ScriptEnded
    /\ \E do_shuffle \in BOOLEAN : deck_cards' \in DeckInit(do_shuffle)
    /\ dealt' = EmptyBag
    /\ op' = "reset"
    /\ outcome' = Return(None)
    /\ UNCHANGED <<hand1, hand2, five, card_text>>

\* The test_evaluator script on its new deck: two cards dealt to a
\* PrivateHand, five to the CommunityCards, and the TotalHand of the two.
\* The script stops at the first call that raises.
DealHand ==
    /\ op = "none"
    /\ LET hole == DealCards(deck_cards, 2)
           board == DealCards(hole.cards, 5)
       IN  /\ deck_cards' = IF hole.result.kind = "raise"
                      THEN hole.cards ELSE board.cards
           /\ dealt' = IF hole.result.kind = "raise"
                       THEN dealt (+) BagOf(hole.got)
                       ELSE dealt (+) BagOf(hole.got \o board.got)
           /\ outcome' = IF hole.result.kind = "raise"
                         THEN hole.result ELSE board.result
           /\ hand1' = IF hole.result.kind = "raise"
                           \/ board.result.kind = "raise"
                        THEN hand1
                        ELSE TotalHand(hole.got, board.got)
    /\ op' = "test_evaluator"
    /\ UNCHANGED <<hand2, five, card_text>>

NextDeck == DealCard \/ Shuffle \/ Reset \/ DealHand

SpecDeck == InitDeck /\ [][NextDeck]_vars

----------------------------------------------------------------------------
(* Vocabulary of the properties: poker's own notions, stated on the cards   *)
(* and not through the evaluator.                                           *)

\* The cards of a hand, in the order they were dealt.
DealtCards(hand) == hand.private_hand \o hand.community_cards

ValueSet(cards) == {get_rank_value(cards[i]) : i \in 1..Len(cards)}
CountOf(cards, v) ==
    Cardinality({i \in 1..Len(cards) : get_rank_value(cards[i]) = v})
SameSuit(cards) == \A i, j \in 1..Len(cards) : cards[i].suit = cards[j].suit
MaxOf(S) == CHOOSE x \in S : \A y \in S : y <= x
MinOf(S) == CHOOSE x \in S : \A y \in S : x <= y

\* The elements of a set of integers, high to low.
RECURSIVE Descending(_)
Descending(S) ==
    IF S = {} THEN <<>> ELSE <<MaxOf(S)>> \o Descending(S \ {MaxOf(S)})

IsWheel(cards) == Len(cards) = 5 /\ ValueSet(cards) = {14, 2, 3, 4, 5}
FormsStraight(cards) ==
    /\ Len(cards) = 5
    /\ Cardinality(ValueSet(cards)) = 5
    /\ \/ MaxOf(ValueSet(cards)) - MinOf(ValueSet(cards)) = 4
       \/ IsWheel(cards)
StraightHigh(cards) == IF IsWheel(cards) THEN 5 ELSE MaxOf(ValueSet(cards))
HasFourOfAKind(cards) == \E v \in ValueSet(cards) : CountOf(cards, v) = 4

\* The values that occur exactly n times among the cards.
ValuesWithCount(cards, n) == {v \in ValueSet(cards) : CountOf(cards, v) = n}

\* The rank-count reference for five cards without flush, straight or four
\* of a kind.
RankCountReference(cards) ==
    LET triples == ValuesWithCount(cards, 3)
        pairs == ValuesWithCount(cards, 2)
        singles == ValuesWithCount(cards, 1)
    IN  IF triples # {} /\ pairs # {}
        THEN <<7, Descending(triples) \o Descending(pairs)>>
        ELSE IF triples # {}
        THEN <<4, Descending(triples) \o Descending(singles)>>
        ELSE IF Cardinality(pairs) = 2
        THEN <<3, Descending(pairs) \o Descending(singles)>>
        ELSE IF Cardinality(pairs) = 1
        THEN <<2, Descending(pairs) \o Descending(singles)>>
        ELSE <<1, Descending(singles)>>

\* s >= t lexicographically, earlier elements dominating.
LexGe(s, t) ==
    \/ \E i \in 1..Len(s) :
        /\ i <= Len(t)
        /\ \A j \in 1..(i - 1) : s[j] = t[j]
        /\ s[i] > t[i]
    \/ /\ Len(t) <= Len(s)
       /\ \A j \in 1..Len(t) : s[j] = t[j]

\* a >= b for (category, tiebreak) pairs: by category, then by tiebreak.
ResultGe(a, b) == a[1] > b[1] \/ (a[1] = b[1] /\ LexGe(a[2], b[2]))

\* The classifier's results on the 5-card subsets of the dealt cards.
SubsetResults(hand) ==
    LET cs == DealtCards(hand)
    IN  {_evaluate_five_card_hand(Pick(cs, idx)).value :
             idx \in SetOf(Combos5(Len(cs)))}

\* What the first differing element of two equally long lists decides:
\* -1 for the first list, 1 for the second, 0 when none differs.
FirstDifference(s, t) ==
    IF \E i \in 1..Len(s) : s[i] # t[i]
    THEN LET i == MinOf({j \in 1..Len(s) : s[j] # t[j]})
         IN  IF s[i] > t[i] THEN -1 ELSE 1
    ELSE 0

Returned(o, v) == o.kind = "return" /\ o.value = v

\* The 6-high straights (2,3,4,5,6) in every choice of suits.
SixHighStraights ==
    {<<Card("2", a), Card("3", b), Card("4", c), Card("5", d), Card("6", e)>> :
        a \in SetOf(SUITS), b \in SetOf(SUITS), c \in SetOf(SUITS),
        d \in SetOf(SUITS), e \in SetOf(SUITS)}

Classified == op = "_evaluate_five_card_hand"
Evaluated == op = "evaluate_hand"
Compared == op = "compare_hands"
Created == op = "create_card"

\* The 52 rank-suit combinations.
AllCards == {Card(r, s) : r \in SetOf(RANKS), s \in SetOf(SUITS)}

\* The characters named as ranks and as suit letters, in both cases.
RankChars == SetOf(RANKS) \cup {"t", "j", "q", "k", "a"}
SuitLetters == {"s", "h", "d", "c", "S", "H", "D", "C"}

\* The rank and the suit a character names.
RankNamed(ch) ==
    CASE ch \in {"t", "T"} -> "T" [] ch \in {"j", "J"} -> "J"
      [] ch \in {"q", "Q"} -> "Q" [] ch \in {"k", "K"} -> "K"
      [] ch \in {"a", "A"} -> "A" [] OTHER -> ch
SuitNamed(ch) ==
    CASE ch \in {"s", "S"} -> "SPADE" [] ch \in {"h", "H"} -> "HEART"
      [] ch \in {"d", "D"} -> "DIAMOND" [] ch \in {"c", "C"} -> "CLUB"
      [] OTHER -> ch

\* A 2-character string of a rank character and a suit letter or glyph.
NamesACard(s) ==
    /\ Len(s) = 2
    /\ s[1] \in RankChars
    /\ s[2] \in SuitLetters \cup SetOf(SUITS)

----------------------------------------------------------------------------
(* Properties                                                               *)

\* C1: for a hand of 5 to 7 distinct cards, evaluate_hand returns a
\* (category, tiebreak) pair that is the classifier's result on some 5-card
\* subset and is >= the classifier's result on every 5-card subset, by
\* category and then lexicographically by tiebreak.
C1_BestOfSubsets ==
    (Evaluated /\ Len(DealtCards(hand1)) \in 5..7) =>
        /\ outcome.kind = "return"
        /\ outcome.value \in SubsetResults(hand1)
        /\ \A r \in SubsetResults(hand1) : ResultGe(outcome.value, r)

\* C1 witness: a 7-card hand was evaluated whose best category is reached by
\* subsets with different tiebreaks, so the tiebreak order decided.
C1_Witness ==
    /\ Evaluated
    /\ Len(DealtCards(hand1)) = 7
    /\ outcome.kind = "return"
    /\ \E r \in SubsetResults(hand1) :
           r[1] = outcome.value[1] /\ r[2] # outcome.value[2]

\* C2 (as claimed): five cards A,2,3,4,5 not all of one suit classify as
\* Straight (5) with high card 5, and compare_hands ranks the hand below
\* every 6-high straight.
C2_WheelIsFiveHighStraight ==
    (Classified /\ IsWheel(five) /\ ~SameSuit(five)) =>
        /\ outcome.kind = "return"
        /\ outcome.value[1] = 5
        /\ outcome.value[2][1] = 5
        /\ \A s \in SixHighStraights :
               Returned(compare_hands(Deal(five), Deal(s)), 1)

\* C3 (as claimed): four cards of rank q and one of rank k classify as
\* FourOfAKind (8) with tiebreak exactly [q, k], for k < q and for k > q.
C3_FourOfAKindTiebreak ==
    \A q, k \in 2..14 :
        (Classified /\ CountOf(five, q) = 4 /\ CountOf(five, k) = 1) =>
            Returned(outcome, <<8, <<q, k>>>>)

\* C4 (as claimed): five cards that form a straight classify with a tiebreak
\* of exactly one element, the straight's high card: RoyalFlush [14] when a
\* flush with high card 14, StraightFlush when a flush otherwise, Straight
\* when not a flush.
C4_StraightTiebreakIsHighCard ==
    (Classified /\ FormsStraight(five)) =>
        Returned(outcome,
                 <<IF SameSuit(five)
                   THEN (IF StraightHigh(five) = 14 THEN 10 ELSE 9)
                   ELSE 5,
                   <<StraightHigh(five)>>>>)

\* C5: five cards that are neither a flush nor a straight and hold no four
\* of a kind classify as the rank-count reference says: FullHouse [triple,
\* pair], ThreeOfAKind [triple, kickers descending], TwoPair [higher pair,
\* lower pair, kicker], Pair [pair, kickers descending], HighCard [all five
\* descending].
C5_RankCountReference ==
    (Classified /\ ~SameSuit(five) /\ ~FormsStraight(five)
        /\ ~HasFourOfAKind(five)) =>
        Returned(outcome, RankCountReference(five))

\* C5 witness: two pairs under a higher kicker were classified.
C5_Witness ==
    /\ Classified
    /\ ~SameSuit(five)
    /\ Cardinality(ValuesWithCount(five, 2)) = 2
    /\ \A p \in ValuesWithCount(five, 2) :
           \A k \in ValuesWithCount(five, 1) : k > p

\* C6 (as claimed): evaluate_hand on a hand whose size is outside 5..7 fails
\* with an error and returns no (category, tiebreak) result.
C6_RejectsBadSize ==
    (Evaluated /\ Len(DealtCards(hand1)) \notin 5..7) =>
        outcome.kind = "raise"

\* C7 (as claimed): evaluating hole=[Td,Qd], community=[9d,4c,Kd,Ad,4s]
\* returns Pair with tiebreak [4,14,13,12].
C7_DemoHandIsPairOfFours ==
    (Evaluated /\ hand1 = DemoHand) =>
        Returned(outcome, <<2, <<4, 14, 13, 12>>>>)

\* C7 (amended): evaluating hole=[Td,Qd], community=[9d,4c,Kd,Ad,4s] returns
\* Flush with tiebreak [14,13,12,10,9], the five diamonds.
C7_DemoHandIsFlush ==
    (Evaluated /\ hand1 = DemoHand) =>
        Returned(outcome, <<6, <<14, 13, 12, 10, 9>>>>)

\* C7 witness: the demo hand was evaluated.
C7_Witness == Evaluated /\ hand1 = DemoHand

\* C8: for five distinct cards the classifier returns a result whose
\* category is one of the ten categories 1..10 and whose tiebreak is not
\* empty; no input falls through every branch.
C8_ClassifierTotal ==
    Classified =>
        /\ outcome.kind = "return"
        /\ outcome.value[1] \in {HAND_RANKS[n] : n \in DOMAIN HAND_RANKS}
        /\ outcome.value[1] \in 1..10
        /\ Len(outcome.value[2]) > 0

\* C8 witness: five cards of five ranks, no flush and no straight, passed
\* every loop and were classified by the last branch.
C8_Witness ==
    /\ Classified
    /\ Cardinality(ValueSet(five)) = 5
    /\ ~SameSuit(five)
    /\ ~FormsStraight(five)
    /\ outcome.kind = "return"

\* C9: over hands of 5 to 7 distinct cards, if compare_hands(a, b) says the
\* first hand wins then compare_hands(b, a) says the second hand wins, and
\* compare_hands(a, a) is a tie.
C9_Antisymmetric ==
    Compared =>
        /\ Returned(outcome, -1) => Returned(compare_hands(hand2, hand1), 1)
        /\ hand1 = hand2 => Returned(outcome, 0)

\* C9 witness: the first hand won a comparison of two hands of the same
\* category.
C9_Witness ==
    /\ Compared
    /\ Returned(outcome, -1)
    /\ evaluate_hand(hand1).value[1] = evaluate_hand(hand2).value[1]

\* C10: compare_hands on two hands of 5 to 7 distinct cards raises no
\* indexing error and returns one of -1, 0, 1: the hand of the higher
\* evaluated category wins; with equal categories the tiebreak lists are
\* equally long and their first differing element decides; with none
\* differing the result is a tie.
C10_CategoryThenTiebreak ==
    Compared =>
        LET e1 == evaluate_hand(hand1).value
            e2 == evaluate_hand(hand2).value
        IN  /\ outcome.kind = "return"
            /\ outcome.value \in {-1, 0, 1}
            /\ e1[1] > e2[1] => outcome.value = -1
            /\ e1[1] < e2[1] => outcome.value = 1
            /\ e1[1] = e2[1] =>
                   /\ Len(e1[2]) = Len(e2[2])
                   /\ outcome.value = FirstDifference(e1[2], e2[2])

\* C10 witness: the hand of the higher category won although its highest
\* tiebreak value is the lower one.
C10_Witness ==
    /\ Compared
    /\ Returned(outcome, -1)
    /\ evaluate_hand(hand1).value[1] > evaluate_hand(hand2).value[1]
    /\ evaluate_hand(hand1).value[2][1] < evaluate_hand(hand2).value[2][1]

\* C11: create_card succeeds exactly on the 2-character strings of a rank
\* character (2-9, T, J, Q, K, A in either case) and a suit letter (s, h, d,
\* c in either case) or suit glyph; the card has the rank and the suit the
\* characters name, and reading its rank and suit back gives an equal card;
\* every other string, of any length, raises ValueError and yields no card.
C11_CreateCardExact ==
    Created =>
        IF NamesACard(card_text)
        THEN /\ outcome.kind = "return"
             /\ outcome.value.rank = RankNamed(card_text[1])
             /\ outcome.value.suit = SuitNamed(card_text[2])
             /\ Returned(create_card(<<outcome.value.rank, outcome.value.suit>>),
                         outcome.value)
        ELSE outcome = Raise(ValueError)

\* C11 witness: a lower-case rank with an upper-case suit letter was parsed
\* into a card.
C11_Witness ==
    /\ Created
    /\ Len(card_text) = 2
    /\ card_text[1] \in {"t", "j", "q", "k", "a"}
    /\ card_text[2] \in {"S", "H", "D", "C"}
    /\ outcome.kind = "return"

\* C12: after any sequence of deal_card, shuffle and reset on a Deck, the
\* cards dealt since the deck was built or last reset are pairwise distinct
\* and, with the cards still in the deck, are exactly the 52 rank-suit
\* combinations; deal_card on an empty deck raises IndexError and leaves the
\* deck empty; and a TotalHand of 2 hole cards and 5 community cards dealt
\* from one deck holds 7 distinct cards.
C12_DeckIsFiftyTwoCards ==
    /\ [](/\ \A c \in BagToSet(dealt) : CopiesIn(c, dealt) = 1
          /\ BagToSet(dealt) \cap SetOf(deck_cards) = {}
          /\ BagToSet(dealt) \cup SetOf(deck_cards) = AllCards
          /\ BagCardinality(dealt) + Len(deck_cards) = 52
          /\ Cardinality(AllCards) = 52
          /\ ScriptEnded =>
                 /\ Len(hand1.private_hand) = 2
                 /\ Len(hand1.community_cards) = 5
                 /\ Cardinality(SetOf(DealtCards(hand1))) = 7)
    /\ [][(deck_cards = <<>> /\ op' = "deal_card") =>
              (outcome' = Raise(IndexError) /\ deck_cards' = <<>>)]_vars

\* C12 witness: deal_card was called on a deck emptied by 52 deals, and
\* raised.
C12_Witness ==
    /\ op = "deal_card"
    /\ outcome.kind = "raise"
    /\ deck_cards = <<>>
    /\ BagCardinality(dealt) = 52

====
